---- MODULE Spec2Model ----
(***************************************************************************)
(* qutebrowser hinting: the hint string generator of HintManager           *)
(* (browser/hints.py) and the hint session built on it.                    *)
(*                                                                         *)
(* A hint string is a sequence of one-character strings, "aa" being        *)
(* <<"a", "a">>.  An element is a natural number (an opaque handle).       *)
(***************************************************************************)
EXTENDS Integers, Sequences, FiniteSets, TLC

VARIABLES
    chars,          \* config.get("hints", "chars"), a sequence of characters
    strings,        \* the list _hint_strings returned last (emitted by start)
    _elems,         \* HintManager._elems: hint string -> ElemTuple
    _frame,         \* HintManager._frame
    _target,        \* HintManager._target
    _baseurl,       \* HintManager._baseurl
    mode,           \* the input mode last set through set_mode
    bindings,       \* HintKeyParser.bindings (its keys)
    document,       \* the hint labels (spans) currently in the document
    dispatched,     \* what the last call did with an element, if anything
    call,           \* the last call made to the HintManager, with its inputs
    raised,         \* its outcome: "none", an error message or an exception
    _activated,     \* EventFilter._activated
    handled,        \* whether the last eventFilter call invoked a handler
    returned        \* what the last eventFilter call returned, if it did

\* the state of the EventFilter
filter_vars == <<_activated, handled, returned>>

vars == <<chars, strings, _elems, _frame, _target, _baseurl,
          mode, bindings, document, dispatched, call, raised,
          _activated, handled, returned>>

----------------------------------------------------------------------------
(* Bounds *)

\* largest number of elements handed to the generator on its own
MaxN == 125
\* largest alphabet size
MaxK == 5
\* largest number of visible elements in a hint session
MaxElems == 3

AllChars == <<"a", "b", "c", "d", "e", "f", "g", "h", "i", "j", "k", "l">>

Alphabet(k) == SubSeq(AllChars, 1, k)

None == "None"

\* no element handed to _click, _yank or _set_cmd_text
Nothing == [action |-> "none"]

\* an empty dict
EmptyDict == [x \in {} |-> None]

\* the frames, page URLs and elements of the browser
Frames == {"frame"}

BaseUrls == {"url"}

Elements == 1..MaxElems

\* elements without an href attribute
Linkless == {3}

\* the span _draw_label appends to the document for a hint string
Span(str) == <<"span", str>>

\* the spans in the document that no ElemTuple refers to
Unreferenced == <<"unreferenced spans">>

\* the alphabet configured while hint sessions run
SessionChars == <<"a", "b">>

\* the hinting targets, HintManager._target
Targets == {"normal", "tab", "bgtab", "yank", "yank_primary",
            "cmd", "cmd_tab", "cmd_bgtab", "rapid"}

----------------------------------------------------------------------------
(* Arithmetic of _hint_strings *)

RECURSIVE Pow(_, _)
Pow(b, e) == IF e = 0 THEN 1 ELSE b * Pow(b, e - 1)

\* the mathematical ceil(log_k(n)): the least d with k^d >= n
RECURSIVE LeastPower(_, _, _)
LeastPower(n, k, d) == IF Pow(k, d) >= n THEN d ELSE LeastPower(n, k, d + 1)

CeilLog(n, k) == LeastPower(n, k, 0)

\* math.log(n, k) is the double quotient log(n)/log(k).  For n < 5000 and
\* k < 12 its ceiling is the mathematical one except at these exact powers,
\* where the quotient is 3.0000000000000004.
LogRoundsUp == {<<125, 5>>, <<216, 6>>}

needed(n, k) == CeilLog(n, k) + (IF <<n, k>> \in LogRoundsUp THEN 1 ELSE 0)

\* short_count dividing by the k - 1 free extensions of a short hint
short_count_per_free(n, k) == (Pow(k, needed(n, k)) - n) \div (k - 1)

short_count(n, k) == (Pow(k, needed(n, k)) - n) \div k

long_count(n, k) == n - short_count(n, k)

----------------------------------------------------------------------------
(* _number_to_hint_str *)

\* the loop as `while number > 0`: no character for the number 0
RECURSIVE hintstr_while(_, _)
hintstr_while(number, cs) ==
    LET base == Len(cs)
        remainder == number % base
        rest == (number - remainder) \div base
    IN  IF number <= 0
        THEN <<>>
        ELSE hintstr_while(rest, cs) \o <<cs[remainder + 1]>>

\* the loop with hintstr.append: least significant character first
RECURSIVE hintstr_append(_, _)
hintstr_append(number, cs) ==
    LET base == Len(cs)
        remainder == number % base
        rest == (number - remainder) \div base
    IN  IF rest <= 0
        THEN <<cs[remainder + 1]>>
        ELSE <<cs[remainder + 1]>> \o hintstr_append(rest, cs)

\* the while loop: one character per base-len(chars) digit, most
\* significant first
RECURSIVE hintstr(_, _)
hintstr(number, cs) ==
    LET base == Len(cs)
        remainder == number % base
        rest == (number - remainder) \div base
    IN  IF rest <= 0
        THEN <<cs[remainder + 1]>>
        ELSE hintstr(rest, cs) \o <<cs[remainder + 1]>>

\* the padding loop over range(1, digits - len(hintstr)): one insert less
RECURSIVE padded_one_less(_, _, _)
padded_one_less(h, cs, digits) ==
    IF digits - Len(h) <= 1 THEN h
    ELSE padded_one_less(<<cs[1]>> \o h, cs, digits)

\* no padding loop at all
padded_not(h, cs, digits) == h

\* the padding loop: range(0, digits - len(hintstr)) inserts of chars[0]
RECURSIVE padded(_, _, _)
padded(h, cs, digits) ==
    IF digits - Len(h) <= 0 THEN h ELSE padded(<<cs[1]>> \o h, cs, digits)

_number_to_hint_str(number, cs, digits) == padded(hintstr(number, cs), cs, digits)

----------------------------------------------------------------------------
(* _shuffle_hints *)

\* buckets filled by enumerate(hints, 1): indices counted from 1
bucket_from_one(hints, length, j) ==
    LET indices == [i \in 1..Len(hints) |-> i]
        mine == SelectSeq(indices, LAMBDA i : i % length = j)
    IN  [m \in 1..Len(mine) |-> hints[mine[m]]]

\* buckets[j] after the enumerate loop (j 0-based): the hints whose index i
\* has i % len(buckets) = j, in the order the loop appended them
bucket(hints, length, j) ==
    LET indices == [i \in 1..Len(hints) |-> i - 1]
        mine == SelectSeq(indices, LAMBDA i : i % length = j)
    IN  [m \in 1..Len(mine) |-> hints[mine[m] + 1]]

\* result += bucket, from the j-th bucket (1-based) on
RECURSIVE concat_buckets(_, _)
concat_buckets(buckets, j) ==
    IF j > Len(buckets) THEN <<>>
    ELSE buckets[j] \o concat_buckets(buckets, j + 1)

\* the hints returned as they came
_shuffle_hints_not(hints, length) == hints

_shuffle_hints(hints, length) ==
    concat_buckets([i \in 1..length |-> bucket(hints, length, i - 1)], 1)

----------------------------------------------------------------------------
(* _hint_strings *)

\* the list with start = short_count: long hints numbered right after the
\* short ones
ordered_strings_start_unscaled(n, cs) ==
    LET k == Len(cs)
        nd == needed(n, k)
        sc == short_count(n, k)
        lc == long_count(n, k)
        short == IF nd > 1
                 THEN [i \in 1..sc |-> _number_to_hint_str(i - 1, cs, nd - 1)]
                 ELSE <<>>
        start == sc
        long == [i \in 1..lc |-> _number_to_hint_str(start + i - 1, cs, nd)]
    IN  short \o long

\* the list `strings` as _hint_strings has built it before the shuffle
ordered_strings(n, cs) ==
    LET k == Len(cs)
        nd == needed(n, k)
        sc == short_count(n, k)
        lc == long_count(n, k)
        short == IF nd > 1
                 THEN [i \in 1..sc |-> _number_to_hint_str(i - 1, cs, nd - 1)]
                 ELSE <<>>
        start == sc * k
        long == [i \in 1..lc |-> _number_to_hint_str(start + i - 1, cs, nd)]
    IN  short \o long

_hint_strings(n, cs) == _shuffle_hints(ordered_strings(n, cs), Len(cs))

----------------------------------------------------------------------------
(* The generator on its own: every element count and alphabet *)

InitManager ==
    /\ _elems = EmptyDict
    /\ _frame = None
    /\ _target = None
    /\ _baseurl = None
    /\ mode = "normal"
    /\ bindings = EmptyDict
    /\ document = {}
    /\ dispatched = Nothing
    /\ raised = "none"

\* EventFilter.__init__
InitFilter ==
    /\ _activated = TRUE
    /\ handled = FALSE
    /\ returned = None

GenInit ==
    /\ chars \in {Alphabet(k) : k \in 2..MaxK}
    /\ call \in {[op |-> "_hint_strings", elems |-> [i \in 1..n |-> i]] :
                    n \in 1..MaxN}
    /\ strings = <<>>
    /\ InitManager
    /\ InitFilter

HintStrings ==
    /\ strings = <<>>
    /\ strings' = _hint_strings(Len(call.elems), chars)
    /\ UNCHANGED <<chars, _elems, _frame, _target, _baseurl,
                   mode, bindings, document, dispatched, call, raised>>
    /\ UNCHANGED filter_vars

GenNext == HintStrings

GenSpec == GenInit /\ [][GenNext]_vars

----------------------------------------------------------------------------
(* The hint session: HintManager and its HintKeyParser *)

Range(f) == {f[x] : x \in DOMAIN f}

Min(a, b) == IF a <= b THEN a ELSE b

\* what survives the filters of start: elements in document order
ElementLists ==
    {ve \in UNION {[1..n -> Elements] : n \in 0..MaxElems} :
        \A i, j \in 1..Len(ve) : i < j => ve[i] < ve[j]}

\* the key strings the key parser can hand over: as long as the longest
\* hint string of a session can be
KeyStrings ==
    UNION {[1..n -> Range(chars)] : n \in 1..CeilLog(MaxElems, 2)}

Init ==
    /\ chars = SessionChars
    /\ call = [op |-> "__init__"]
    /\ strings = <<>>
    /\ InitManager
    /\ InitFilter

\* the loop over zip(reversed(visible_elems), strings)
zip_elems_reversed(old, ve, ss) ==
    LET n == Min(Len(ve), Len(ss))
        last(str) == CHOOSE i \in 1..n :
                        ss[i] = str /\ \A j \in 1..n : ss[j] = str => j <= i
    IN  [str \in DOMAIN old \cup {ss[i] : i \in 1..n} |->
            IF \E i \in 1..n : ss[i] = str
            THEN [elem |-> ve[Len(ve) + 1 - last(str)], label |-> Span(str)]
            ELSE old[str]]

\* the loop over zip(visible_elems, strings): self._elems[string] =
\* ElemTuple(e, label), label being the span _draw_label made for string
zip_elems(old, ve, ss) ==
    LET n == Min(Len(ve), Len(ss))
        last(str) == CHOOSE i \in 1..n :
                        ss[i] = str /\ \A j \in 1..n : ss[j] = str => j <= i
    IN  [str \in DOMAIN old \cup {ss[i] : i \in 1..n} |->
            IF \E i \in 1..n : ss[i] = str
            THEN [elem |-> ve[last(str)], label |-> Span(str)]
            ELSE old[str]]

\* _draw_label for every pair of zip(visible_elems, strings). A span whose
\* key the loop overwrites stays in the document with no ElemTuple left to
\* reach it; nothing tells such spans apart, Unreferenced stands for them
draw_labels(doc, old, ve, ss) ==
    LET drawn == {ss[i] : i \in 1..Min(Len(ve), Len(ss))}
        lost == {old[str].label : str \in DOMAIN old \cap drawn} \cap doc
    IN  (doc \ lost) \cup (IF lost = {} THEN {} ELSE {Unreferenced})
            \cup {Span(str) : str \in drawn}

\* HintKeyParser.on_hint_strings_updated
on_hint_strings_updated(ss) == [str \in Range(ss) |-> str]

\* _hint_strings under the session alphabet, for each number of elements
\* a session can hint
SessionHintStrings == [n \in 1..MaxElems |-> _hint_strings(n, SessionChars)]

\* self._hint_strings(visible_elems) as start calls it, config.get("hints",
\* "chars") being chars: read off SessionHintStrings where it has the value
hint_strings_of(ve) ==
    IF chars = SessionChars /\ Len(ve) \in DOMAIN SessionHintStrings
    THEN SessionHintStrings[Len(ve)]
    ELSE _hint_strings(Len(ve), chars)

start(frame, baseurl, target, ve) ==
    /\ call' = [op |-> "start", frame |-> frame, baseurl |-> baseurl,
                target |-> target, elems |-> ve]
    /\ _target' = target
    /\ _baseurl' = baseurl
    /\ _frame' = frame
    /\ IF ve = <<>>
       THEN /\ raised' = "No elements found."
            /\ UNCHANGED <<strings, _elems, document, bindings, mode>>
       ELSE /\ strings' = hint_strings_of(ve)
            /\ _elems' = zip_elems(_elems, ve, strings')
            /\ document' = draw_labels(document, _elems, ve, strings')
            /\ bindings' = on_hint_strings_updated(strings')
            /\ mode' = "hint"
            /\ raised' = "none"
    /\ dispatched' = Nothing
    /\ UNCHANGED chars

Start ==
    \E frame \in Frames, baseurl \in BaseUrls, target \in Targets,
       ve \in ElementLists :
        start(frame, baseurl, target, ve) /\ UNCHANGED filter_vars

\* no label removed from the document
without_labels_not(doc, dict) == doc

\* the labels of self._elems.values(), removed from the document
without_labels(doc, dict) == doc \ {dict[str].label : str \in DOMAIN dict}

\* the body of stop
stop_effect ==
    /\ document' = without_labels(document, _elems)
    /\ IF _frame = None
       THEN /\ raised' = "AttributeError"
            /\ UNCHANGED <<_elems, _target, _frame, mode>>
       ELSE /\ _elems' = EmptyDict
            /\ _target' = None
            /\ _frame' = None
            /\ mode' = "normal"
            /\ raised' = "none"

stop ==
    /\ call' = [op |-> "stop", mode |-> mode]
    /\ stop_effect
    /\ dispatched' = Nothing
    /\ UNCHANGED <<chars, strings, _baseurl, bindings>>

Stop == stop /\ UNCHANGED filter_vars

\* string.endswith(keystr) in place of startswith
endswith(string, keystr) ==
    /\ Len(keystr) <= Len(string)
    /\ SubSeq(string, Len(string) - Len(keystr) + 1, Len(string)) = keystr

startswith(string, keystr) ==
    /\ Len(keystr) <= Len(string)
    /\ SubSeq(string, 1, Len(keystr)) = keystr

\* history of the calls, as the key parser makes them for the bindings it
\* was handed: typing begins after a start that hinted, or after a fire the
\* key parser made for a completed binding
typing_begins ==
    \/ call.op = "start" /\ raised = "none"
    \/ call.op = "fire" /\ call.in_order

\* handle_partial_key(keystr) comes right after the calls of
\* handle_partial_key for every shorter prefix of keystr, shortest first,
\* and those after the beginning of typing
in_order(keystr) ==
    \/ Len(keystr) = 1 /\ typing_begins
    \/ /\ Len(keystr) > 1
       /\ call.op = "handle_partial_key"
       /\ call.keystr = SubSeq(keystr, 1, Len(keystr) - 1)
       /\ call.in_order

\* fire(keystr) is HintKeyParser.execute for a binding, in hint mode, after
\* handle_partial_key for every proper prefix of keystr in order
completed(keystr) ==
    /\ mode = "hint"
    /\ keystr \in DOMAIN bindings
    /\ in_order(keystr)

\* the entries kept stored again under rest, the part not yet typed
handle_partial_key_rest(keystr) ==
    LET delete == {str \in DOMAIN _elems : ~startswith(str, keystr)}
        kept == DOMAIN _elems \ delete
        rest(str) == SubSeq(str, Len(keystr) + 1, Len(str))
    IN  /\ call' = [op |-> "handle_partial_key", keystr |-> keystr,
                    in_order |-> in_order(keystr)]
        /\ document' = document \ {_elems[str].label : str \in delete}
        /\ _elems' = [r \in {rest(str) : str \in kept} |->
                        _elems[CHOOSE str \in kept : rest(str) = r]]
        /\ raised' = "none"
        /\ dispatched' = Nothing
        /\ UNCHANGED <<chars, strings, _frame, _target,
                       _baseurl, mode, bindings>>

\* handle_partial_key ending the session when no entry is left
handle_partial_key_autostop(keystr) ==
    LET delete == {str \in DOMAIN _elems : ~startswith(str, keystr)}
        kept == DOMAIN _elems \ delete
    IN  /\ call' = [op |-> "handle_partial_key", keystr |-> keystr,
                    in_order |-> in_order(keystr)]
        /\ document' = document \ {_elems[str].label : str \in delete}
        /\ _elems' = [str \in kept |-> _elems[str]]
        /\ raised' = "none"
        /\ dispatched' = Nothing
        /\ IF kept = {} /\ _frame # None
           THEN _target' = None /\ _frame' = None /\ mode' = "normal"
           ELSE UNCHANGED <<_target, _frame, mode>>
        /\ UNCHANGED <<chars, strings, _baseurl, bindings>>

handle_partial_key(keystr) ==
    LET delete == {str \in DOMAIN _elems : ~startswith(str, keystr)}
        kept == DOMAIN _elems \ delete
    IN  /\ call' = [op |-> "handle_partial_key", keystr |-> keystr,
                    in_order |-> in_order(keystr)]
        /\ document' = document \ {_elems[str].label : str \in delete}
        /\ _elems' = [str \in kept |-> _elems[str]]
        /\ raised' = "none"
        /\ dispatched' = Nothing
        /\ UNCHANGED <<chars, strings, _frame, _target,
                       _baseurl, mode, bindings>>

HandlePartialKey ==
    \E keystr \in KeyStrings :
        handle_partial_key(keystr) /\ UNCHANGED filter_vars

\* targets which require a valid link
require_link == {"yank", "yank_primary", "cmd", "cmd_tab", "cmd_bgtab"}

commands == [cmd |-> "open", cmd_tab |-> "tabopen", cmd_bgtab |-> "backtabopen"]

\* a link resolved for every element, href or not
_resolve_link_any(elem) == <<"link", elem>>

\* _resolve_link: None for an element without href
_resolve_link(elem) == IF elem \in Linkless THEN None ELSE <<"link", elem>>

\* what fire does with elem under the target: _click, _yank, _set_cmd_text
dispatch(elem, target) ==
    CASE target \in {"normal", "tab", "bgtab"} ->
            [action |-> "click", elem |-> elem, arg |-> target]
      [] target = "rapid" ->
            [action |-> "click", elem |-> elem, arg |-> "bgtab"]
      [] target \in {"yank", "yank_primary"} ->
            [action |-> "yank", elem |-> elem,
             arg |-> IF target = "yank_primary" THEN "primary" ELSE "clipboard"]
      [] target \in {"cmd", "cmd_tab", "cmd_bgtab"} ->
            [action |-> "set_cmd_text", elem |-> elem, arg |-> commands[target]]
      [] OTHER -> Nothing

\* fire with the lookup in try/except KeyError: self.stop()
fire_except_stop(keystr) ==
    /\ call' = [op |-> "fire", keystr |-> keystr,
                in_order |-> completed(keystr)]
    /\ IF keystr \notin DOMAIN _elems
       THEN /\ dispatched' = Nothing
            /\ stop_effect
       ELSE LET elem == _elems[keystr].elem
            IN  IF _target \in require_link /\ _resolve_link(elem) = None
                THEN /\ raised' = "No suitable link found for this element."
                     /\ dispatched' = Nothing
                     /\ UNCHANGED <<_elems, _target, _frame, mode, document>>
                ELSE /\ dispatched' = dispatch(elem, _target)
                     /\ IF _target # "rapid"
                        THEN stop_effect
                        ELSE /\ raised' = "none"
                             /\ UNCHANGED <<_elems, _target, _frame, mode,
                                            document>>
    /\ UNCHANGED <<chars, strings, _baseurl, bindings>>

\* fire ending in an unconditional self.stop()
fire_always_stops(keystr) ==
    /\ call' = [op |-> "fire", keystr |-> keystr,
                in_order |-> completed(keystr)]
    /\ IF keystr \notin DOMAIN _elems
       THEN /\ raised' = "KeyError"
            /\ dispatched' = Nothing
            /\ UNCHANGED <<_elems, _target, _frame, mode, document>>
       ELSE LET elem == _elems[keystr].elem
            IN  IF _target \in require_link /\ _resolve_link(elem) = None
                THEN /\ raised' = "No suitable link found for this element."
                     /\ dispatched' = Nothing
                     /\ UNCHANGED <<_elems, _target, _frame, mode, document>>
                ELSE /\ dispatched' = dispatch(elem, _target)
                     /\ stop_effect
    /\ UNCHANGED <<chars, strings, _baseurl, bindings>>

fire(keystr) ==
    /\ call' = [op |-> "fire", keystr |-> keystr,
                in_order |-> completed(keystr)]
    /\ IF keystr \notin DOMAIN _elems
       THEN /\ raised' = "KeyError"
            /\ dispatched' = Nothing
            /\ UNCHANGED <<_elems, _target, _frame, mode, document>>
       ELSE LET elem == _elems[keystr].elem
            IN  IF _target \in require_link /\ _resolve_link(elem) = None
                THEN /\ raised' = "No suitable link found for this element."
                     /\ dispatched' = Nothing
                     /\ UNCHANGED <<_elems, _target, _frame, mode, document>>
                ELSE /\ dispatched' = dispatch(elem, _target)
                     /\ IF _target # "rapid"
                        THEN stop_effect
                        ELSE /\ raised' = "none"
                             /\ UNCHANGED <<_elems, _target, _frame, mode,
                                            document>>
    /\ UNCHANGED <<chars, strings, _baseurl, bindings>>

Fire == \E keystr \in KeyStrings : fire(keystr) /\ UNCHANGED filter_vars

Next == Start \/ Stop \/ HandlePartialKey \/ Fire

Spec == Init /\ [][Next]_vars

----------------------------------------------------------------------------
(* The global event filter: EventFilter *)

\* the objects an event is about to be delivered to
Objects == {"QWindow", "QWidget"}

\* the event types an event can have
EventTypes == {"KeyPress", "KeyRelease", "ShortcutOverride",
               "MouseButtonPress", "FocusIn"}

\* EventFilter._handlers: the event types with a handler
_handlers == {"KeyPress", "KeyRelease", "ShortcutOverride"}

\* QApplication.instance().activeWindow()
Windows == {"mainwindow", "dialog"}

\* objreg.window_registry.values()
window_registry == {"mainwindow"}

\* what modeman.instance('current') and man.handle_event(event) come to
ModeMan == {"True", "False", "RegistryUnavailableError", "Exception"}

\* _handle_key_event: "True" or "False" returned, or "raise"
_handle_key_event(window, man) ==
    IF window \notin window_registry
    THEN "False"
    ELSE CASE man = "RegistryUnavailableError" -> "False"
           [] man = "Exception" -> "raise"
           [] OTHER -> man

\* eventFilter with a bare `raise` in the except clause
eventFilter_only_raises(obj, typ, window, man) ==
    /\ call' = [op |-> "eventFilter", obj |-> obj, typ |-> typ,
                window |-> window, man |-> man]
    /\ IF obj # "QWindow" \/ typ \notin _handlers \/ ~_activated
       THEN /\ returned' = "False"
            /\ handled' = FALSE
            /\ raised' = "none"
            /\ UNCHANGED _activated
       ELSE /\ handled' = TRUE
            /\ UNCHANGED _activated
            /\ IF _handle_key_event(window, man) = "raise"
               THEN /\ raised' = "Exception"
                    /\ returned' = None
               ELSE /\ returned' = _handle_key_event(window, man)
                    /\ raised' = "none"
    /\ UNCHANGED <<chars, strings, _elems, _frame, _target, _baseurl,
                   mode, bindings, document, dispatched>>

eventFilter(obj, typ, window, man) ==
    /\ call' = [op |-> "eventFilter", obj |-> obj, typ |-> typ,
                window |-> window, man |-> man]
    /\ IF obj # "QWindow" \/ typ \notin _handlers \/ ~_activated
       THEN /\ returned' = "False"
            /\ handled' = FALSE
            /\ raised' = "none"
            /\ UNCHANGED _activated
       ELSE /\ handled' = TRUE
            /\ IF _handle_key_event(window, man) = "raise"
               THEN /\ _activated' = FALSE
                    /\ raised' = "Exception"
                    /\ returned' = None
               ELSE /\ returned' = _handle_key_event(window, man)
                    /\ raised' = "none"
                    /\ UNCHANGED _activated
    /\ UNCHANGED <<chars, strings, _elems, _frame, _target, _baseurl,
                   mode, bindings, document, dispatched>>

EventFilterCall ==
    \E obj \in Objects, typ \in EventTypes, window \in Windows,
       man \in ModeMan :
        eventFilter(obj, typ, window, man)

FilterNext == EventFilterCall

FilterSpec == Init /\ [][FilterNext]_vars

----------------------------------------------------------------------------
(* Vocabulary of the generator properties *)

N == Len(call.elems)

K == Len(chars)

Generated == strings # <<>>

IsPrefix(s, t) == Len(s) <= Len(t) /\ SubSeq(t, 1, Len(s)) = s

\* position of a character in the alphabet, first character = 0
DigitOf(c) == (CHOOSE i \in 1..K : chars[i] = c) - 1

\* a hint string read as a base-K number
RECURSIVE Decode(_)
Decode(s) ==
    IF s = <<>> THEN 0
    ELSE Decode(SubSeq(s, 1, Len(s) - 1)) * K + DigitOf(s[Len(s)])

NumOfLen(ss, l) == Cardinality({i \in 1..Len(ss) : Len(ss[i]) = l})

LongestLen(ss) ==
    IF ss = <<>> THEN 0
    ELSE CHOOSE l \in {Len(ss[i]) : i \in 1..Len(ss)} :
            \A i \in 1..Len(ss) : Len(ss[i]) <= l

\* the sum of the lengths of the strings of ss, length by length
RECURSIVE SumByLen(_, _)
SumByLen(ss, l) ==
    IF l <= 0 THEN 0 ELSE l * NumOfLen(ss, l) + SumByLen(ss, l - 1)

TotalLen(ss) == SumByLen(ss, LongestLen(ss))

PrefixFree(ss) ==
    \A i, j \in 1..Len(ss) :
        i # j => ss[i] # ss[j] /\ ~IsPrefix(ss[i], ss[j])

----------------------------------------------------------------------------
\* C1: for every element count N >= 1 and alphabet of K >= 2 characters the
\* generator returns exactly N strings, pairwise distinct, none of which is
\* a prefix of another.
C1_UniquePrefixFree ==
    Generated => Len(strings) = N /\ PrefixFree(strings)

\* a generated list that mixes short and long hint strings
C1_Witness ==
    /\ Generated
    /\ N >= 5
    /\ \E i, j \in 1..Len(strings) : Len(strings[i]) < Len(strings[j])

----------------------------------------------------------------------------
\* the base-K numeral of `number` with exactly `len` characters
Encode(number, len) ==
    [p \in 1..len |-> chars[((number \div Pow(K, len - p)) % K) + 1]]

\* s labels of L - 1 characters numbered from 0, then N - s labels of L
\* characters numbered from s * K
AltLabels(s, L) ==
    [i \in 1..N |-> IF i <= s THEN Encode(i - 1, L - 1)
                    ELSE Encode(s * K + i - s - 1, L)]

NonEmpty(ss) == \A i \in 1..Len(ss) : ss[i] # <<>>

\* C2 (as claimed): no N distinct, non-empty, mutually prefix-free strings
\* over the alphabet have a smaller total length than the generated list;
\* stated over the labelings with one split point between two lengths.
C2_MinimalTotalLength ==
    Generated =>
        \A L \in 1..LongestLen(strings) : \A s \in 0..N :
            TotalLen(AltLabels(s, L)) < TotalLen(strings)
                => ~(NonEmpty(AltLabels(s, L)) /\ PrefixFree(AltLabels(s, L)))

\* C2 (amended): exactly short_count labels are one character shorter than
\* the others when more than one digit is needed, none otherwise, so the
\* total length is N * max(needed, 1) - short_count.
C2_TotalLength ==
    Generated =>
        LET d == needed(N, K)
            D == IF d > 1 THEN d ELSE 1
            S == IF d > 1 THEN short_count(N, K) ELSE 0
        IN  /\ NumOfLen(strings, D - 1) = S
            /\ NumOfLen(strings, D) = N - S
            /\ TotalLen(strings) = N * D - S

\* N = 3 over "ab": total length 6, while "a", "ba", "bb" has 5
C2_Witness ==
    /\ Generated /\ N = 3 /\ K = 2
    /\ TotalLen(strings) = 6
    /\ PrefixFree(AltLabels(1, 2)) /\ TotalLen(AltLabels(1, 2)) = 5

----------------------------------------------------------------------------
----------------------------------------------------------------------------
\* C4: with d = ceil(log_K(N)) at most floor((K^d - N) / K) labels have
\* length d - 1, and when d <= 1 there is no short label: the N labels have
\* one length and are numbered 0..N-1.
C4_ShortCount ==
    Generated =>
        LET d == CeilLog(N, K)
        IN  /\ NumOfLen(strings, d - 1) <= (Pow(K, d) - N) \div K
            /\ d <= 1 =>
                /\ NumOfLen(strings, d - 1) = 0
                /\ \A i, j \in 1..Len(strings) : Len(strings[i]) = Len(strings[j])
                /\ {Decode(strings[i]) : i \in 1..Len(strings)} = 0..(N - 1)

\* a list with as many short labels as the bound allows, more than one
C4_Witness ==
    /\ Generated
    /\ CeilLog(N, K) > 1
    /\ NumOfLen(strings, CeilLog(N, K) - 1) = (Pow(K, CeilLog(N, K)) - N) \div K
    /\ NumOfLen(strings, CeilLog(N, K) - 1) >= 2

----------------------------------------------------------------------------
\* C5: for N = 1 the generator returns exactly one label, the alphabet's
\* first character.
C5_SingleLabel ==
    (Generated /\ N = 1) => strings = << <<chars[1]>> >>

C5_Witness == Generated /\ N = 1 /\ K >= 3 /\ Len(strings) = 1

----------------------------------------------------------------------------
\* where the bucket shuffle puts the label of 0-based position p: after the
\* buckets of smaller index, behind the earlier labels of its own bucket
FinalPos(p) ==
    Cardinality({q \in 0..(N - 1) : q % K < p % K}) + (p \div K)

\* short labels first, each length in ascending numeric order
Ascending(ss) ==
    \A i, j \in 1..Len(ss) :
        i < j => \/ Len(ss[i]) < Len(ss[j])
                 \/ Len(ss[i]) = Len(ss[j]) /\ Decode(ss[i]) < Decode(ss[j])

\* C6: the output is the bucket shuffle of the ordered list (short labels
\* ascending, then long labels ascending): the label at position p goes to
\* bucket p mod K, the buckets are concatenated in order, the output is a
\* permutation of the ordered list; N = 3 over "ab" gives aa, ba, ab.
C6_BucketShuffle ==
    Generated =>
        LET ordered == ordered_strings(N, chars)
        IN  /\ Ascending(ordered)
            /\ Len(strings) = Len(ordered)
            /\ {FinalPos(p) : p \in 0..(N - 1)} = 0..(N - 1)
            /\ \A p \in 0..(Len(ordered) - 1) :
                    strings[FinalPos(p) + 1] = ordered[p + 1]
            /\ (N = 3 /\ chars = <<"a", "b">>) =>
                    strings = << <<"a", "a">>, <<"b", "a">>, <<"a", "b">> >>

\* a shuffle that moves labels, with buckets of different sizes
C6_Witness ==
    /\ Generated
    /\ N = 5 /\ K = 3
    /\ strings # ordered_strings(N, chars)
    /\ FinalPos(1) = 2 /\ FinalPos(3) = 1

----------------------------------------------------------------------------
\* the 1-based positions in the output of the labels starting with c
PositionsOf(c) == {i \in 1..Len(strings) : strings[i][1] = c}

\* two positions of PositionsOf(c) with no other one between them
Consecutive(c, a, b) ==
    /\ a \in PositionsOf(c) /\ b \in PositionsOf(c) /\ a < b
    /\ \A m \in PositionsOf(c) : ~(a < m /\ m < b)

MaxGap(bound) ==
    \A x \in 1..K : \A a, b \in PositionsOf(chars[x]) :
        Consecutive(chars[x], a, b) => b - a <= bound

\* C7 (as claimed): the gap between two consecutive positions of labels
\* with the same first character is at most ceil(N / K) + 1.
C7_GapCeil == Generated => MaxGap(((N + K - 1) \div K) + 1)

\* C7 (amended): the gap between two consecutive positions of labels with
\* the same first character is at most the larger of ceil(N / K) and
\* N - floor(N / K) - 1.
C7_GapBound ==
    Generated =>
        LET ceil == (N + K - 1) \div K
            wrap == N - (N \div K) - 1
        IN  MaxGap(IF ceil >= wrap THEN ceil ELSE wrap)

\* N = 10 over "abc": two consecutive labels starting with c are 6 apart
C7_Witness ==
    /\ Generated /\ N = 10 /\ K = 3
    /\ \E a, b \in PositionsOf("c") : Consecutive("c", a, b) /\ b - a = 6

----------------------------------------------------------------------------
Contiguous(c) ==
    \A a, b \in PositionsOf(c) : \A m \in a..b : m \in PositionsOf(c)

Scattered ==
    \A x \in 1..K :
        Cardinality(PositionsOf(chars[x])) >= 2 => ~Contiguous(chars[x])

\* C8 (as claimed): for N > K the positions of the labels starting with a
\* character that starts at least two labels are never all contiguous.
C8_NeverContiguous == (Generated /\ N > K) => Scattered

\* C8 (amended): the same for every N > K other than N = 4 with K = 3,
\* where the output a, bc, ba, bb keeps the three b labels together.
C8_ScatteredExceptFourOfThree ==
    (Generated /\ N > K /\ ~(N = 4 /\ K = 3)) => Scattered

\* N > K with a first character starting several labels, spread out
C8_Witness ==
    /\ Generated /\ N = 5 /\ K = 3
    /\ Cardinality(PositionsOf("b")) >= 2
    /\ ~Contiguous("b")

----------------------------------------------------------------------------
\* C9 (as claimed): every label decodes to a value in [0, N) and the
\* decoded values are pairwise distinct.
C9_DecodeBelowN ==
    Generated =>
        /\ \A i \in 1..Len(strings) : Decode(strings[i]) \in 0..(N - 1)
        /\ \A i, j \in 1..Len(strings) :
                i # j => Decode(strings[i]) # Decode(strings[j])

\* number of labels shorter than the longest one
ShortLabels == Len(strings) - NumOfLen(strings, LongestLen(strings))

\* C9 (amended): every label decodes to a value in [0, N + S * (K - 1)),
\* S being the number of short labels, and the N decoded values are
\* pairwise distinct.
C9_DecodeDistinct ==
    Generated =>
        /\ Len(strings) = N
        /\ \A i \in 1..Len(strings) :
                Decode(strings[i]) \in 0..(N + ShortLabels * (K - 1) - 1)
        /\ \A i, j \in 1..Len(strings) :
                i # j => Decode(strings[i]) # Decode(strings[j])

\* N = 5 over "ab": the label bab decodes to 5
C9_Witness ==
    /\ Generated /\ N = 5 /\ K = 2
    /\ ShortLabels = 1
    /\ \E i \in 1..Len(strings) : Decode(strings[i]) = 5

----------------------------------------------------------------------------
Inactive == mode = "normal" /\ DOMAIN _elems = {}

\* C10: a start from Inactive with N >= 1 targets builds a mapping of
\* exactly N entries pairing the i-th target with the i-th label of the
\* generator output, hands that ordered label list to the key parser, and
\* leaves the session in hint mode with the given target and context
\* recorded.
C10_StartBuildsMapping ==
    [][(Inactive /\ call'.op = "start" /\ call'.elems # <<>>) =>
        LET n == Len(call'.elems)
        IN  /\ n >= 1
            /\ strings' = _hint_strings(n, chars)
            /\ Len(strings') = n
            /\ Cardinality(DOMAIN _elems') = n
            /\ \A i \in 1..n :
                /\ strings'[i] \in DOMAIN _elems'
                /\ _elems'[strings'[i]].elem = call'.elems[i]
            /\ (call'.elems = <<1, 2, 3>> /\ chars = <<"a", "b">>) =>
                /\ strings' = << <<"a", "a">>, <<"b", "a">>, <<"a", "b">> >>
                /\ _elems'[<<"b", "a">>].elem = 2
            /\ DOMAIN bindings' = {strings'[i] : i \in 1..n}
            /\ mode' = "hint"
            /\ _target' = call'.target
            /\ _frame' = call'.frame
            /\ _baseurl' = call'.baseurl
      ]_vars

\* the first start, with targets 1, 2, 3 over "ab", has built the mapping
C10_Witness ==
    /\ call.op = "start" /\ raised = "none"
    /\ call.elems = <<1, 2, 3>> /\ chars = <<"a", "b">>
    /\ DOMAIN _elems = {<<"a", "a">>, <<"b", "a">>, <<"a", "b">>}
    /\ _elems[<<"a", "b">>].elem = 3
    /\ mode = "hint"

----------------------------------------------------------------------------
(* Vocabulary of the session properties *)

\* the (label, target) pairs of a mapping
Pairs(dict) == {<<str, dict[str].elem>> : str \in DOMAIN dict}

\* the overlays of the entries of a mapping
Overlays(dict) == {dict[str].label : str \in DOMAIN dict}

Active == mode = "hint"

\* C11: handle_partial_key(typed) leaves in the mapping exactly the pairs of
\* the previous mapping whose label starts with typed, each with its target
\* unchanged, removes every other pair and takes that pair's overlay out of
\* the document; it adds no pair.
C11_PartialKeyPrunes ==
    [][call'.op = "handle_partial_key" =>
        LET typed == call'.keystr
            keep == {str \in DOMAIN _elems : IsPrefix(typed, str)}
        IN  /\ DOMAIN _elems' = keep
            /\ \A str \in keep : _elems'[str] = _elems[str]
            /\ Pairs(_elems') \subseteq Pairs(_elems)
            /\ \A str \in DOMAIN _elems \ keep :
                    _elems[str].label \notin document'
            /\ \A str \in keep :
                    _elems[str].label \in document' <=>
                    _elems[str].label \in document
            /\ (Pairs(_elems) = {<< <<"a", "a">>, 1 >>, << <<"b", "a">>, 2 >>,
                                 << <<"a", "b">>, 3 >>}
                /\ typed = <<"a">>) =>
                    Pairs(_elems') = {<< <<"a", "a">>, 1 >>,
                                      << <<"a", "b">>, 3 >>}]_vars

\* handle_partial_key("a") has pruned aa:1, ba:2, ab:3 to aa:1, ab:3 and
\* taken the overlay of ba out of the document
C11_Witness ==
    /\ call.op = "handle_partial_key" /\ call.keystr = <<"a">>
    /\ strings = << <<"a", "a">>, <<"b", "a">>, <<"a", "b">> >>
    /\ Pairs(_elems) = {<< <<"a", "a">>, 1 >>, << <<"a", "b">>, 3 >>}
    /\ document = {Span(<<"a", "a">>), Span(<<"a", "b">>)}
    /\ Active

----------------------------------------------------------------------------
\* the modes other than rapid
NonRapid == {"normal", "tab", "bgtab", "yank", "yank_primary",
             "cmd", "cmd_tab", "cmd_bgtab"}

\* the modes that act on the link of the target
LinkModes == {"yank", "yank_primary", "cmd", "cmd_tab", "cmd_bgtab"}

\* the target elem was handed to the collaborator of the mode
Dispatched(out, elem, m) ==
    /\ out # Nothing
    /\ out.elem = elem
    /\ m \in {"normal", "tab", "bgtab"} => out.action = "click" /\ out.arg = m
    /\ m \in {"yank", "yank_primary"} => out.action = "yank"
    /\ m \in {"cmd", "cmd_tab", "cmd_bgtab"} => out.action = "set_cmd_text"

\* a fire step of an Active session on a key of the mapping, in mode m
FiresKnown(m) ==
    /\ call'.op = "fire"
    /\ call'.keystr \in DOMAIN _elems
    /\ Active
    /\ _target = m

\* C12 as stated: in every mode but rapid, fire on a key of the mapping
\* dispatches the mapped target with the mode and ends Inactive with the
\* mapping empty, whatever the target.
C12_FireEndsSession ==
    [][\A m \in NonRapid : FiresKnown(m) =>
        /\ Dispatched(dispatched', _elems[call'.keystr].elem, m)
        /\ Inactive']_vars

\* C12 amended: the same for every target in normal, tab and bgtab and for
\* every target with a link in the other modes; in a link mode a target
\* without a link is not dispatched, an error is reported and the session
\* stays as it was, Active.
C12_FireEndsUnlessLinkless ==
    [][\A m \in NonRapid : FiresKnown(m) =>
        LET elem == _elems[call'.keystr].elem
        IN  IF m \in LinkModes /\ elem \in Linkless
            THEN /\ dispatched' = Nothing
                 /\ raised' = "No suitable link found for this element."
                 /\ UNCHANGED <<_elems, _target, _frame, _baseurl, mode,
                                bindings, document>>
            ELSE /\ Dispatched(dispatched', elem, m)
                 /\ raised' = "none"
                 /\ Inactive'
                 /\ _target' = None /\ _frame' = None
                 /\ document' = document \ Overlays(_elems)]_vars

\* fire("aa") in mode cmd_tab has handed element 1 to the command line and
\* ended the session
C12_Witness ==
    /\ call.op = "fire" /\ call.keystr = <<"a", "a">>
    /\ dispatched # Nothing
    /\ dispatched.action = "set_cmd_text" /\ dispatched.elem = 1
    /\ dispatched.arg = "tabopen"
    /\ Inactive

----------------------------------------------------------------------------
\* C13: fire(typed) with typed not a key of the current mapping fails with
\* the unknown-key error, dispatches nothing and leaves the mapping, the
\* mode, the context and the lifecycle state as they were.
C13_FireUnknownKey ==
    [][(call'.op = "fire" /\ call'.keystr \notin DOMAIN _elems) =>
        /\ raised' = "KeyError"
        /\ dispatched' = Nothing
        /\ UNCHANGED <<_elems, _target, _frame, _baseurl, mode, bindings,
                       strings, document>>]_vars

\* fire("bb") has failed in an Active session whose labels are aa, ba, ab
C13_Witness ==
    /\ call.op = "fire" /\ call.keystr = <<"b", "b">>
    /\ raised = "KeyError"
    /\ Active
    /\ DOMAIN _elems = {<<"a", "a">>, <<"b", "a">>, <<"a", "b">>}
    /\ dispatched = Nothing

----------------------------------------------------------------------------
\* C14 as stated: in an Active session, fire(L) for a label L of the list
\* emitted at start, called after handle_partial_key for every proper
\* prefix of L in order, finds L in the mapping, in every mode and after
\* any number of earlier fires of the session.
C14_CompletedLabelFound ==
    [][(/\ call'.op = "fire"
        /\ Active
        /\ call'.keystr \in DOMAIN bindings
        /\ call'.in_order) =>
            /\ call'.keystr \in DOMAIN _elems
            /\ raised' # "KeyError"]_vars

----------------------------------------------------------------------------
\* C15: in rapid mode, fire(typed) with typed in the mapping dispatches the
\* mapped target and leaves the session Active: the mapping is not cleared,
\* hint mode is not left, and the recorded mode and context are unchanged.
C15_RapidStaysActive ==
    [][FiresKnown("rapid") =>
        /\ dispatched' # Nothing
        /\ dispatched'.elem = _elems[call'.keystr].elem
        /\ dispatched'.action = "click"
        /\ raised' = "none"
        /\ Active'
        /\ _elems' = _elems /\ _elems' # EmptyDict
        /\ _target' = "rapid"
        /\ UNCHANGED <<_frame, _baseurl, bindings, document>>]_vars

\* fire("aa") in rapid mode has clicked element 1 and the session is still
\* Active with the mapping the typing of "a" had left
C15_Witness ==
    /\ call.op = "fire" /\ call.keystr = <<"a", "a">>
    /\ _target = "rapid"
    /\ dispatched # Nothing
    /\ dispatched.action = "click" /\ dispatched.elem = 1
    /\ Active
    /\ DOMAIN _elems = {<<"a", "a">>, <<"a", "b">>}
    /\ _frame # None

----------------------------------------------------------------------------
\* C16 as stated: in rapid mode the full mapping built at start is kept
\* apart from the pruned one, so after a fire every label emitted at start
\* is in the live mapping again, with its overlay, and can be typed and
\* fired.
C16_RapidRestoresMapping ==
    [][FiresKnown("rapid") =>
        \A i \in 1..Len(strings) :
            /\ strings[i] \in DOMAIN _elems'
            /\ _elems'[strings[i]].label \in document']_vars

----------------------------------------------------------------------------
----------------------------------------------------------------------------
\* C18 as stated: stop called on an Inactive session, before any start or
\* after a stop or a fire that ended the session, raises no error and
\* changes nothing.
C18_StopInactiveNoOp ==
    [][(call'.op = "stop" /\ Inactive) =>
        /\ raised' = "none"
        /\ UNCHANGED <<_elems, _target, _frame, _baseurl, mode, bindings,
                       strings, document>>]_vars

----------------------------------------------------------------------------
\* C19 as stated: start with no element left after filtering fails without
\* entering Active: no label list is emitted, hint mode is not entered and
\* the mapping, the recorded target, the context and the frame are what
\* they were before the call, from Inactive and from Active alike.
C19_EmptyStartChangesNothing ==
    [][(call'.op = "start" /\ call'.elems = <<>>) =>
        /\ raised' = "No elements found."
        /\ mode' = mode
        /\ UNCHANGED <<strings, bindings>>
        /\ UNCHANGED <<_elems, _target, _baseurl, _frame, document>>]_vars

----------------------------------------------------------------------------
\* C20: once start has built the mapping it never grows: over every
\* handle_partial_key, fire and stop the set of (label, target) pairs is a
\* subset of what it was, shrunk by the filtering or cleared as a whole,
\* and no label that remains changes its target.
C20_MappingNeverGrows ==
    [][call'.op \in {"handle_partial_key", "fire", "stop"} =>
        /\ Pairs(_elems') \subseteq Pairs(_elems)
        /\ DOMAIN _elems' \subseteq DOMAIN _elems
        /\ \A str \in DOMAIN _elems' : _elems'[str].elem = _elems[str].elem
        /\ call'.op \in {"fire", "stop"} =>
                _elems' = _elems \/ _elems' = EmptyDict]_vars

\* handle_partial_key has shrunk the mapping of a session to a part of it
C20_Witness ==
    /\ call.op = "handle_partial_key"
    /\ Active
    /\ DOMAIN _elems # {}
    /\ DOMAIN _elems \subseteq DOMAIN bindings
    /\ DOMAIN _elems # DOMAIN bindings

----------------------------------------------------------------------------
\* C21: handle_partial_key changes neither the lifecycle state nor the
\* recorded mode nor the context; when the pruning leaves the mapping empty
\* the session stays Active: hint mode is not left and no error is raised.
C21_PartialKeyKeepsSession ==
    [][call'.op = "handle_partial_key" =>
        /\ raised' = "none"
        /\ mode' = mode
        /\ Active' <=> Active
        /\ UNCHANGED <<_target, _frame, _baseurl, bindings, strings>>
        /\ dispatched' = Nothing]_vars

\* handle_partial_key("b") has pruned every entry of a session whose labels
\* all start with a, and the session is still Active
C21_Witness ==
    /\ call.op = "handle_partial_key" /\ call.keystr = <<"b">>
    /\ raised = "none"
    /\ DOMAIN bindings = {<<"a">>}
    /\ DOMAIN _elems = {}
    /\ Active
    /\ _target # None /\ _frame # None

----------------------------------------------------------------------------
\* C23 as stated: after every start that hints, also one called while a
\* session is Active, the labels of the mapping are exactly the label list
\* that start emitted: no pair of the earlier session is left, the live
\* labels are prefix-free and every overlay in the document belongs to an
\* entry of the mapping.
C23_StartReplacesMapping ==
    [][(call'.op = "start" /\ call'.elems # <<>>) =>
        /\ DOMAIN _elems' = Range(strings')
        /\ \A s, t \in DOMAIN _elems' : s # t => ~IsPrefix(s, t)
        /\ document' \subseteq Overlays(_elems')]_vars

----------------------------------------------------------------------------
\* the last call handed a key event on a QWindow to the filter
KeyEventOnWindow(c) ==
    /\ c.op = "eventFilter"
    /\ c.obj = "QWindow"
    /\ c.typ \in {"KeyPress", "KeyRelease", "ShortcutOverride"}

\* C22: a key event (KeyPress, KeyRelease, ShortcutOverride on a QWindow)
\* is handed to its handler only while _activated is true; when a handler
\* raises, _activated is false before the exception leaves eventFilter, it
\* is never true again, and every later event is passed through
\* (eventFilter returns False) with no handler invoked.
C22_ActivationLatch ==
    [][call'.op = "eventFilter" =>
        /\ handled' <=> (KeyEventOnWindow(call') /\ _activated)
        /\ raised' # "none" => handled' /\ ~_activated'
        /\ ~_activated =>
            /\ ~_activated'
            /\ ~handled'
            /\ returned' = "False"
            /\ raised' = "none"
        /\ (_activated /\ raised' = "none") => _activated']_vars

\* a key press on a QWindow has been passed through, no handler invoked,
\* by a filter a raising handler had switched off
C22_Witness ==
    /\ KeyEventOnWindow(call)
    /\ call.window = "mainwindow" /\ call.man = "True"
    /\ ~_activated
    /\ ~handled
    /\ returned = "False"
    /\ raised = "none"

====
